---- MODULE Spec2Model ----
(***************************************************************************)
(* Multi-trial classification engine of the migration engine               *)
(* (classifyFile and its helpers).                                         *)
(*                                                                         *)
(* One execution of classifyFile is modelled: the sampling loop with its   *)
(* await on makeTrial, then aggregation, normalisation and the dominance   *)
(* decision.  The oracle (the LLM call inside makeTrial) is the only       *)
(* source of nondeterminism: each invocation either throws before a        *)
(* response exists or yields a response text that makeTrial parses and     *)
(* validates.                                                              *)
(*                                                                         *)
(* Numbers.  normalizedConfidence is (totalConfidence / grandTotal) * 100  *)
(* in IEEE doubles.  It is kept here as the exact fraction num / den with  *)
(* num = totalConfidence * 100 and den = grandTotal; every comparison the  *)
(* code makes (>= 50, >= 2 * other, the sort comparator) is done by cross  *)
(* multiplication.  For the integer confidences of Suggestions the double  *)
(* comparisons give the same answers: equal fractions round to equal       *)
(* doubles, doubling is exact, and distinct fractions differ by far more   *)
(* than one unit in the last place.                                        *)
(*                                                                         *)
(* Several specifications share the module, each over its own variables   *)
(* while the others rest: Spec (classifyFile; FairSpec adds the progress   *)
(* of its steps), UsageSpec (classifyFile with the steps of makeTrial told *)
(* apart, for the usage accounting), PureSpec (makeTrial, aggregation and  *)
(* the decision applied to a wider range of responses), CliSpec (the batch *)
(* and single-file command lines with moveFile) and PruneSpec (the         *)
(* hierarchy pruning tool).                                                *)
(*                                                                         *)
(* A JavaScript Map keeps insertion order and Array.prototype.sort is      *)
(* stable; both are modelled by sequences.  JSON.stringify of an array of  *)
(* strings is injective, so a path key is the array itself.                *)
(***************************************************************************)
EXTENDS Integers, Sequences, FiniteSets, TLC

\* Largest number of suggestions in one oracle response.
MaxSuggestions == 2

\* while (trials.length < 3 && ...)
TargetTrials == 3

\* const maxAttempts = 6
maxAttempts == 6

\* topChoice.normalizedConfidence >= 50
AbsoluteThresholdPercent == 50

\* topChoice.normalizedConfidence >= 2 * alternatives[0].normalizedConfidence
DominanceFactor == 2

\* topChoice.count < 3
AllTrialsCount == 3

\* n.count >= 2
MultipleTimesCount == 2

\* A missing newFolderName (undefined).
NoName == ""

\* reviewReason when there is no review reason.
Undefined == "undefined"

-----------------------------------------------------------------------------
(* Oracle responses *)

\* Structurally valid suggestions the oracle may put in a response.
Suggestions ==
  { [path |-> <<"Work">>, newFolderName |-> NoName, isNewFolder |-> FALSE, confidence |-> 60],
    [path |-> <<"Home">>, newFolderName |-> NoName, isNewFolder |-> FALSE, confidence |-> 30],
    [path |-> <<"Work">>, newFolderName |-> "Tax", isNewFolder |-> TRUE, confidence |-> 60] }

\* A suggestion as it stands in the parsed JSON, before validation.
Raw(s) ==
  [path |-> s.path, pathIsArray |-> TRUE,
   newFolderName |-> s.newFolderName,
   isNewFolder |-> s.isNewFolder, isNewFolderIsBoolean |-> TRUE,
   confidence |-> s.confidence, confidenceIsNumber |-> TRUE]

WorkRaw == Raw([path |-> <<"Work">>, newFolderName |-> NoName, isNewFolder |-> FALSE, confidence |-> 60])

\* Items that pass validation: the valid suggestions, and one whose
\* isNewFolder field is absent.
AcceptedItems ==
  { Raw(s) : s \in Suggestions } \cup { [WorkRaw EXCEPT !.isNewFolderIsBoolean = FALSE] }

\* Items that makeTrial rejects.
RejectedItems ==
  { [WorkRaw EXCEPT !.pathIsArray = FALSE],
    [WorkRaw EXCEPT !.confidence = 101],
    [WorkRaw EXCEPT !.confidence = -1],
    [WorkRaw EXCEPT !.confidenceIsNumber = FALSE],
    [WorkRaw EXCEPT !.isNewFolder = TRUE] }

SeqsUpTo(S, n) == UNION { [1..k -> S] : k \in 0..n }

InsertAt(s, i, e) == SubSeq(s, 1, i - 1) \o <<e>> \o SubSeq(s, i, Len(s))

\* A valid suggestion the oracle gives no confidence at all.
ZeroConfidenceItem ==
  Raw([path |-> <<"Home">>, newFolderName |-> NoName, isNewFolder |-> FALSE, confidence |-> 0])

\* JSON arrays the oracle may answer with: any list of accepted items (the
\* empty list included), the single zero-confidence suggestion, and lists
\* with one rejected item at any position.
ArrayResponses ==
  SeqsUpTo(AcceptedItems, MaxSuggestions)
    \cup { <<ZeroConfidenceItem>> }
    \cup UNION { { InsertAt(s, i, b) : i \in 1..(Len(s) + 1), b \in RejectedItems } :
                  s \in SeqsUpTo(AcceptedItems, MaxSuggestions - 1) }

\* What one oracle invocation can produce.
\*   networkError: generateContent throws, no response exists
\*   notJson:      the response text is not JSON
\*   notArray:     the JSON value is not an array
\*   array:        the JSON value is the array items
Responses ==
  { [kind |-> k, items |-> <<>>] : k \in {"networkError", "notJson", "notArray"} }
    \cup { [kind |-> "array", items |-> a] : a \in ArrayResponses }

-----------------------------------------------------------------------------
(* makeTrial *)

\* The per-suggestion validation of makeTrial's for loop; isNewFolder has
\* already been defaulted when the later checks read it.
NormalizedIsNewFolder(item) ==
  IF item.isNewFolderIsBoolean THEN item.isNewFolder ELSE FALSE

ItemIsValid(item) ==
  /\ item.pathIsArray
  /\ item.confidenceIsNumber /\ item.confidence >= 0 /\ item.confidence <= 100
  /\ ~(NormalizedIsNewFolder(item) /\ item.newFolderName = NoName)

NormalizeItem(item) ==
  [path |-> item.path, newFolderName |-> item.newFolderName,
   isNewFolder |-> NormalizedIsNewFolder(item), confidence |-> item.confidence]

\* TRUE iff makeTrial throws on this response.
makeTrialThrows(response) ==
  \/ response.kind # "array"
  \/ \E i \in 1..Len(response.items) : ~ItemIsValid(response.items[i])

\* The TrialResult makeTrial returns when it does not throw.
makeTrial(response) ==
  [suggestions |-> [i \in 1..Len(response.items) |-> NormalizeItem(response.items[i])]]

\* The responses on which makeTrial throws, and the TrialResults it returns
\* on the others.
ThrowingResponses == { response \in Responses : makeTrialThrows(response) }

ReturnedTrials == { makeTrial(response) : response \in Responses \ ThrowingResponses }

-----------------------------------------------------------------------------
(* getPathKey, aggregateSuggestions *)

getPathKey(path, newFolderName, isNewFolder) ==
  IF isNewFolder /\ newFolderName # NoName
    THEN Append(path, "NEW:" \o newFolderName)
    ELSE path

\* Variant: a repeated key overwrites the confidence instead of adding to it.
AggregateOne_Overwrites(aggregated, suggestion) ==
  LET key == getPathKey(suggestion.path, suggestion.newFolderName, suggestion.isNewFolder)
  IN IF \E i \in 1..Len(aggregated) : aggregated[i].key = key
       THEN [i \in 1..Len(aggregated) |->
               IF aggregated[i].key = key
                 THEN [aggregated[i] EXCEPT !.totalConfidence = suggestion.confidence,
                                            !.count = @ + 1]
                 ELSE aggregated[i]]
       ELSE Append(aggregated,
                   [key |-> key, path |-> suggestion.path,
                    newFolderName |-> suggestion.newFolderName,
                    isNewFolder |-> suggestion.isNewFolder,
                    totalConfidence |-> suggestion.confidence, count |-> 1])

\* One iteration of the inner loop: merge suggestion into the map.
AggregateOne(aggregated, suggestion) ==
  LET key == getPathKey(suggestion.path, suggestion.newFolderName, suggestion.isNewFolder)
  IN IF \E i \in 1..Len(aggregated) : aggregated[i].key = key
       THEN [i \in 1..Len(aggregated) |->
               IF aggregated[i].key = key
                 THEN [aggregated[i] EXCEPT !.totalConfidence = @ + suggestion.confidence,
                                            !.count = @ + 1]
                 ELSE aggregated[i]]
       ELSE Append(aggregated,
                   [key |-> key, path |-> suggestion.path,
                    newFolderName |-> suggestion.newFolderName,
                    isNewFolder |-> suggestion.isNewFolder,
                    totalConfidence |-> suggestion.confidence, count |-> 1])

RECURSIVE AggregateTrial(_, _)
AggregateTrial(aggregated, suggestions) ==
  IF suggestions = <<>> THEN aggregated
  ELSE AggregateTrial(AggregateOne(aggregated, Head(suggestions)), Tail(suggestions))

RECURSIVE AggregateTrials(_, _)
AggregateTrials(aggregated, ts) ==
  IF ts = <<>> THEN aggregated
  ELSE AggregateTrials(AggregateTrial(aggregated, Head(ts).suggestions), Tail(ts))

\* The Map, as the sequence of its entries in insertion order.
aggregateSuggestions(ts) == AggregateTrials(<<>>, ts)

-----------------------------------------------------------------------------
(* normalizeConfidences *)

\* Variant: reduce without an initial value, the first entry taken as zero.
RECURSIVE SumTotalConfidence_SkipsFirst(_)
SumTotalConfidence_SkipsFirst(aggregated) ==
  IF aggregated = <<>> THEN 0
  ELSE IF Len(aggregated) = 1 THEN Head(aggregated).totalConfidence
  ELSE SumTotalConfidence_SkipsFirst(Tail(aggregated))

RECURSIVE SumTotalConfidence(_)
SumTotalConfidence(aggregated) ==
  IF aggregated = <<>> THEN 0
  ELSE Head(aggregated).totalConfidence + SumTotalConfidence(Tail(aggregated))

\* Variant: a.normalizedConfidence - b.normalizedConfidence (ascending).
CompareDesc_Ascending(a, b) ==
  a.normalizedConfidence.num * b.normalizedConfidence.den
    - b.normalizedConfidence.num * a.normalizedConfidence.den

\* (a, b) => b.normalizedConfidence - a.normalizedConfidence, as a sign:
\* positive when b must come before a.
CompareDesc(a, b) ==
  b.normalizedConfidence.num * a.normalizedConfidence.den
    - a.normalizedConfidence.num * b.normalizedConfidence.den

\* Stable insertion of e into the sorted sequence s: e goes after every
\* element that does not compare greater than it.
RECURSIVE InsertSorted(_, _)
InsertSorted(s, e) ==
  IF s = <<>> THEN <<e>>
  ELSE IF CompareDesc(Head(s), e) > 0
         THEN <<e>> \o s
         ELSE <<Head(s)>> \o InsertSorted(Tail(s), e)

RECURSIVE StableSortDesc(_, _)
StableSortDesc(sorted, rest) ==
  IF rest = <<>> THEN sorted
  ELSE StableSortDesc(InsertSorted(sorted, Head(rest)), Tail(rest))

\* Variant: no early return when the total is 0.
normalizeConfidences_NoZeroCheck(aggregated) ==
  LET totalConfidence == SumTotalConfidence(aggregated)
  IN StableSortDesc(<<>>,
       [i \in 1..Len(aggregated) |->
          [path |-> aggregated[i].path,
           newFolderName |-> aggregated[i].newFolderName,
           isNewFolder |-> aggregated[i].isNewFolder,
           normalizedConfidence |->
             [num |-> aggregated[i].totalConfidence * 100, den |-> totalConfidence],
           count |-> aggregated[i].count]])

normalizeConfidences(aggregated) ==
  LET totalConfidence == SumTotalConfidence(aggregated)
  IN IF totalConfidence = 0 THEN <<>>
     ELSE StableSortDesc(<<>>,
            [i \in 1..Len(aggregated) |->
               [path |-> aggregated[i].path,
                newFolderName |-> aggregated[i].newFolderName,
                isNewFolder |-> aggregated[i].isNewFolder,
                normalizedConfidence |->
                  [num |-> aggregated[i].totalConfidence * 100, den |-> totalConfidence],
                count |-> aggregated[i].count]])

-----------------------------------------------------------------------------
(* The dominance decision of classifyFile *)

\* x >= n for a normalized confidence x and an integer n.
AtLeast(x, n) == x.num >= n * x.den

\* x >= k * y for normalized confidences x, y and an integer k.
AtLeastTimes(x, k, y) == x.num * y.den >= k * y.num * x.den

isNewFolderSuggestedMultipleTimes(normalized, ts) ==
  LET newFolderSuggestions == SelectSeq(normalized, LAMBDA n : n.isNewFolder)
  IN IF Len(newFolderSuggestions) = 0 THEN FALSE
     ELSE \E i \in 1..Len(newFolderSuggestions) :
            newFolderSuggestions[i].count >= MultipleTimesCount

hasNewFolderInSingleTrial(normalized) ==
  \E i \in 1..Len(normalized) : normalized[i].isNewFolder /\ normalized[i].count = 1

\* Variant: the threshold is exclusive.
absoluteThreshold_Exclusive(topChoice) ==
  topChoice.normalizedConfidence.num > AbsoluteThresholdPercent * topChoice.normalizedConfidence.den

absoluteThreshold(topChoice) ==
  AtLeast(topChoice.normalizedConfidence, AbsoluteThresholdPercent)

\* Variant: the top choice must exceed twice the best alternative.
relativeDominance_Exclusive(topChoice, alternatives) ==
  \/ Len(alternatives) = 0
  \/ topChoice.normalizedConfidence.num * alternatives[1].normalizedConfidence.den
       > DominanceFactor * alternatives[1].normalizedConfidence.num
                         * topChoice.normalizedConfidence.den

relativeDominance(topChoice, alternatives) ==
  \/ Len(alternatives) = 0
  \/ AtLeastTimes(topChoice.normalizedConfidence, DominanceFactor,
                  alternatives[1].normalizedConfidence)

\* Variant: the count is compared with the number of collected trials.
newFolderNeedsReview_Collected(topChoice, normalized, ts) ==
  /\ topChoice.isNewFolder
  /\ \/ topChoice.count < Len(ts)
     \/ ~AtLeast(topChoice.normalizedConfidence, AbsoluteThresholdPercent)

newFolderNeedsReview(topChoice, normalized, ts) ==
  /\ topChoice.isNewFolder
  /\ \/ ~isNewFolderSuggestedMultipleTimes(normalized, ts)
     \/ topChoice.count < AllTrialsCount
     \/ ~AtLeast(topChoice.normalizedConfidence, AbsoluteThresholdPercent)

isDominant(topChoice, alternatives, normalized, ts) ==
  /\ absoluteThreshold(topChoice)
  /\ relativeDominance(topChoice, alternatives)
  /\ ~newFolderNeedsReview(topChoice, normalized, ts)
  /\ ~hasNewFolderInSingleTrial(normalized)

\* Variant: the new-folder reasons are pushed before the dominance reasons.
reviewReasons_NewFolderFirst(topChoice, alternatives, normalized, ts) ==
  (IF newFolderNeedsReview(topChoice, normalized, ts)
        THEN <<"new folder suggestion needs verification">> ELSE <<>>)
  \o (IF hasNewFolderInSingleTrial(normalized)
        THEN <<"new folder suggested in only one trial">> ELSE <<>>)
  \o (IF ~absoluteThreshold(topChoice) THEN <<"low absolute confidence">> ELSE <<>>)
  \o (IF ~relativeDominance(topChoice, alternatives) /\ Len(alternatives) > 0
        THEN <<"close alternatives">> ELSE <<>>)

\* Variant: the single-trial reason is not pushed.
reviewReasons_WithoutSingleTrial(topChoice, alternatives, normalized, ts) ==
  (IF ~absoluteThreshold(topChoice) THEN <<"low absolute confidence">> ELSE <<>>)
  \o (IF ~relativeDominance(topChoice, alternatives) /\ Len(alternatives) > 0
        THEN <<"close alternatives">> ELSE <<>>)
  \o (IF newFolderNeedsReview(topChoice, normalized, ts)
        THEN <<"new folder suggestion needs verification">> ELSE <<>>)

reviewReasons(topChoice, alternatives, normalized, ts) ==
  (IF ~absoluteThreshold(topChoice) THEN <<"low absolute confidence">> ELSE <<>>)
  \o (IF ~relativeDominance(topChoice, alternatives) /\ Len(alternatives) > 0
        THEN <<"close alternatives">> ELSE <<>>)
  \o (IF newFolderNeedsReview(topChoice, normalized, ts)
        THEN <<"new folder suggestion needs verification">> ELSE <<>>)
  \o (IF hasNewFolderInSingleTrial(normalized)
        THEN <<"new folder suggested in only one trial">> ELSE <<>>)

\* reviewReasons.join('; ')
RECURSIVE Join(_)
Join(reasons) ==
  IF Len(reasons) = 1 THEN Head(reasons)
  ELSE Head(reasons) \o "; " \o Join(Tail(reasons))

\* The four fields the result keeps of a ranked candidate.
Choice(n) ==
  [path |-> n.path, newFolderName |-> n.newFolderName,
   isNewFolder |-> n.isNewFolder, normalizedConfidence |-> n.normalizedConfidence]

\* The ClassificationResult built from a non-empty ranked list.
ClassificationResult(normalized, ts) ==
  LET topChoice == normalized[1]
      alternatives == Tail(normalized)
      reasons == reviewReasons(topChoice, alternatives, normalized, ts)
      dominant == isDominant(topChoice, alternatives, normalized, ts)
  IN [topChoice |-> Choice(topChoice),
      alternatives |-> [i \in 1..Len(alternatives) |-> Choice(alternatives[i])],
      isDominant |-> dominant,
      needsReview |-> ~dominant,
      reviewReasons |-> reasons,
      reviewReason |-> IF Len(reasons) > 0 THEN Join(reasons) ELSE Undefined,
      rawTrials |-> ts]

\* The value of result while classifyFile has not returned.
NoResult ==
  [topChoice |-> [path |-> <<>>, newFolderName |-> NoName, isNewFolder |-> FALSE,
                  normalizedConfidence |-> [num |-> 0, den |-> 1]],
   alternatives |-> <<>>, isDominant |-> FALSE, needsReview |-> FALSE,
   reviewReasons |-> <<>>, reviewReason |-> Undefined, rawTrials |-> <<>>]

-----------------------------------------------------------------------------
(* The taxonomy (utils/hierarchy.ts) *)

\* A node without children: {}.
Leaf == <<>>

\* The hierarchy passed to classifyFile: a mapping from folder name to
\* sub-hierarchy.  One folder's name starts with the text 'NEW:'.
Hierarchy ==
  ("Work" :> (("Projects" :> Leaf) @@ ("NEW:Tax" :> Leaf))) @@ ("Home" :> Leaf)

RECURSIVE pathExists(_, _)
pathExists(hierarchy, path) ==
  IF Len(path) = 0 THEN TRUE
  ELSE IF Head(path) \notin DOMAIN hierarchy THEN FALSE
  ELSE pathExists(hierarchy[Head(path)], Tail(path))

\* Adds path below the root of hierarchy, keeping what is there.
RECURSIVE AddPath(_, _)
AddPath(hierarchy, path) ==
  IF path = <<>> THEN hierarchy
  ELSE [k \in DOMAIN hierarchy \cup {Head(path)} |->
          IF k = Head(path)
            THEN AddPath(IF k \in DOMAIN hierarchy THEN hierarchy[k] ELSE Leaf, Tail(path))
            ELSE hierarchy[k]]

\* The hierarchy addNestedFoldersToHierarchy saves; nothing is saved when
\* the base path does not exist.
addNestedFoldersToHierarchy(hierarchy, basePath, newFolderPath) ==
  IF ~pathExists(hierarchy, basePath) THEN hierarchy
  ELSE AddPath(hierarchy, basePath \o newFolderPath)

-----------------------------------------------------------------------------
(* The disk and moveFile (mover.ts) *)

\* disk.sourceExists   the file to classify exists at its current path
\* disk.renamed        the file was renamed in place
\* disk.folders        the hierarchy paths that exist as folders under the base path
\* disk.destFiles      the folders that hold a file with the source's name
\* disk.hierarchyJson  the content of hierarchy.json
NoDisk ==
  [sourceExists |-> FALSE, renamed |-> FALSE, folders |-> {}, destFiles |-> {},
   hierarchyJson |-> Leaf]

\* The folders mkdirSync(..., { recursive: true }) makes sure exist.
Prefixes(path) == { SubSeq(path, 1, k) : k \in 1..Len(path) }

\* The loop of moveFile that finds the deepest existing path.
RECURSIVE ExistingDepth(_, _)
ExistingDepth(hierarchy, path) ==
  IF path = <<>> THEN 0
  ELSE IF Head(path) \notin DOMAIN hierarchy THEN 0
  ELSE 1 + ExistingDepth(hierarchy[Head(path)], Tail(path))

\* hierarchy.json after moveFile created the destination folder.
HierarchyAfterCreate(hierarchy, hierarchyPath) ==
  LET existingDepth == ExistingDepth(hierarchy, hierarchyPath)
  IN IF existingDepth < Len(hierarchyPath)
       THEN addNestedFoldersToHierarchy(hierarchy,
              SubSeq(hierarchyPath, 1, existingDepth),
              SubSeq(hierarchyPath, existingDepth + 1, Len(hierarchyPath)))
       ELSE hierarchy

\* What the final rename can do:
\*   "renamed"       renameSync succeeds
\*   "copied"        renameSync throws, copyFileSync and unlinkSync succeed
\*   "copyFailed"    renameSync and copyFileSync throw
\*   "unlinkFailed"  renameSync throws, copyFileSync succeeds, unlinkSync throws
RenameOutcomes == {"renamed", "copied", "copyFailed", "unlinkFailed"}

\* Variant: the file at the destination is overwritten.
moveFile_Overwrites(d, hierarchyPath, createIfMissing, io) ==
  IF ~d.sourceExists THEN [disk |-> d, success |-> FALSE]
  ELSE IF hierarchyPath \notin d.folders /\ ~createIfMissing
    THEN [disk |-> d, success |-> FALSE]
  ELSE
    LET created ==
          IF hierarchyPath \notin d.folders
            THEN [d EXCEPT !.folders = @ \cup Prefixes(hierarchyPath),
                           !.hierarchyJson = HierarchyAfterCreate(@, hierarchyPath)]
            ELSE d
    IN IF io \in {"renamed", "copied"}
         THEN [disk |-> [created EXCEPT !.sourceExists = FALSE,
                                        !.destFiles = @ \cup {hierarchyPath}],
               success |-> TRUE]
       ELSE IF io = "unlinkFailed"
         THEN [disk |-> [created EXCEPT !.destFiles = @ \cup {hierarchyPath}],
               success |-> FALSE]
       ELSE [disk |-> created, success |-> FALSE]

\* Variant: a missing destination folder is created whatever createIfMissing.
moveFile_CreatesAnyway(d, hierarchyPath, createIfMissing, io) ==
  IF ~d.sourceExists THEN [disk |-> d, success |-> FALSE]
  ELSE
    LET created ==
          IF hierarchyPath \notin d.folders
            THEN [d EXCEPT !.folders = @ \cup Prefixes(hierarchyPath),
                           !.hierarchyJson = HierarchyAfterCreate(@, hierarchyPath)]
            ELSE d
    IN IF hierarchyPath \in created.destFiles
         THEN [disk |-> created, success |-> FALSE]
       ELSE IF io \in {"renamed", "copied"}
         THEN [disk |-> [created EXCEPT !.sourceExists = FALSE,
                                        !.destFiles = @ \cup {hierarchyPath}],
               success |-> TRUE]
       ELSE IF io = "unlinkFailed"
         THEN [disk |-> [created EXCEPT !.destFiles = @ \cup {hierarchyPath}],
               success |-> FALSE]
       ELSE [disk |-> created, success |-> FALSE]

\* moveFile: the disk afterwards and MoveResult.success.
moveFile(d, hierarchyPath, createIfMissing, io) ==
  IF ~d.sourceExists THEN [disk |-> d, success |-> FALSE]
  ELSE IF hierarchyPath \notin d.folders /\ ~createIfMissing
    THEN [disk |-> d, success |-> FALSE]
  ELSE
    LET created ==
          IF hierarchyPath \notin d.folders
            THEN [d EXCEPT !.folders = @ \cup Prefixes(hierarchyPath),
                           !.hierarchyJson = HierarchyAfterCreate(@, hierarchyPath)]
            ELSE d
    IN IF hierarchyPath \in created.destFiles
         THEN [disk |-> created, success |-> FALSE]
       ELSE IF io \in {"renamed", "copied"}
         THEN [disk |-> [created EXCEPT !.sourceExists = FALSE,
                                        !.destFiles = @ \cup {hierarchyPath}],
               success |-> TRUE]
       ELSE IF io = "unlinkFailed"
         THEN [disk |-> [created EXCEPT !.destFiles = @ \cup {hierarchyPath}],
               success |-> FALSE]
       ELSE [disk |-> created, success |-> FALSE]

\* dryRunMove: wouldSucceed; the disk is only read.
dryRunMove(d, hierarchyPath) ==
  /\ d.sourceExists
  /\ hierarchyPath \in d.folders
  /\ hierarchyPath \notin d.destFiles

-----------------------------------------------------------------------------
(* classifyFile as a state machine *)

VARIABLES
  pc,          \* position in classifyFile
  trials,      \* const trials: TrialResult[]
  attempts,    \* let attempts
  failures,    \* number of makeTrial calls that threw (history)
  normalized,  \* const normalized, once computed
  result,      \* the returned ClassificationResult, once returned
  inFlight     \* number of makeTrial calls begun and not yet settled (history)

classifyVars == <<pc, trials, attempts, failures, normalized, result, inFlight>>

\* makeTrial and aggregateSuggestions applied to chosen responses (PureSpec).
VARIABLES
  xPc,         \* "idle", "input", "parsed" or "aggregated"
  xResponses,  \* the oracle responses, in order
  xTrials,     \* the TrialResults makeTrial returned for them
  xAggregated, \* aggregateSuggestions(xTrials)
  xResult      \* the ClassificationResult built from xAggregated

pureVars == <<xPc, xResponses, xTrials, xAggregated, xResult>>

PureIdle ==
  /\ xPc = "idle"
  /\ xResponses = <<>>
  /\ xTrials = <<>>
  /\ xAggregated = <<>>
  /\ xResult = NoResult

\* The command lines and the disk (CliSpec).
VARIABLES
  cPc,           \* "idle", "classified", "prompt" (ask is pending) or "end"
  cTool,         \* "batch" (classifyAndPrompt) or "single" (classify-file main)
  cAuto,         \* args.includes('--auto')
  cDry,          \* args.includes('--dry')
  cThrew,        \* classifyFile threw
  cResult,       \* the ClassificationResult, when it did not throw
  cTarget,       \* targetPath, then currentTargetPath
  cIsNew,        \* currentIsNewFolder
  cAlternatives, \* currentAlternatives, each with its destination path
  cPrompted,     \* the user has answered a prompt (history)
  cAction,       \* what the command line did with the file
  cTally,        \* the batch's counters moved, skipped, errors
  disk           \* the file, the folders and hierarchy.json

cliVars == <<cPc, cTool, cAuto, cDry, cThrew, cResult, cTarget, cIsNew,
             cAlternatives, cPrompted, cAction, cTally, disk>>

\* Usage accounting inside makeTrial (UsageSpec).
VARIABLES
  usage,      \* sessionStats.callCount since classifyFile was called
  responded   \* number of generateContent calls that resolved (history)

usageVars == <<usage, responded>>

UsageIdle ==
  /\ usage = 0
  /\ responded = 0

\* The hierarchy pruning tool (PruneSpec).
VARIABLES
  pPc,         \* "idle", "start", "running", "saved", "quit" or "NoInput"
  pStack,      \* the pending calls of processNode, innermost last
  pDecisions,  \* number of keep, prune and truncate decisions taken (history)
  pWritten,    \* the output hierarchy file was written by this run
  pOutput      \* what was written

pruneVars == <<pPc, pStack, pDecisions, pWritten, pOutput>>

PruneIdle ==
  /\ pPc = "idle"
  /\ pStack = <<>>
  /\ pDecisions = 0
  /\ pWritten = FALSE
  /\ pOutput = <<>>

vars == <<classifyVars, pureVars, cliVars, usageVars, pruneVars>>

\* let moved = 0; let skipped = 0; let errors = 0
NoTally == [moved |-> 0, skipped |-> 0, errors |-> 0]

\* The command lines at rest.
CliIdle ==
  /\ cPc = "idle"
  /\ cTool = "none"
  /\ cAuto = FALSE
  /\ cDry = FALSE
  /\ cThrew = FALSE
  /\ cResult = NoResult
  /\ cTarget = <<>>
  /\ cIsNew = FALSE
  /\ cAlternatives = <<>>
  /\ cPrompted = FALSE
  /\ cAction = "none"
  /\ cTally = NoTally
  /\ disk = NoDisk


\* pc values:
\*   "idle"             classifyFile is not running (PureSpec, CliSpec)
\*   "start"            before the API key check
\*   "loop"             at the head of the while loop
\*   "awaiting"         inside await makeTrial(...)
\*   "done"             classifyFile returned result
\*   "NoApiKey"         threw 'GEMINI_API_KEY environment variable is not set'
\*   "NoUsableSamples"  threw 'All classification trials failed'
\*   "EmptyAggregate"   threw 'No valid suggestions received from any trial'
Terminal == {"done", "NoApiKey", "NoUsableSamples", "EmptyAggregate"}

ClassifyIdle ==
  /\ pc = "idle"
  /\ trials = <<>>
  /\ attempts = 0
  /\ failures = 0
  /\ normalized = <<>>
  /\ result = NoResult
  /\ inFlight = 0

Init ==
  /\ pc = "start"
  /\ trials = <<>>
  /\ attempts = 0
  /\ failures = 0
  /\ normalized = <<>>
  /\ result = NoResult
  /\ inFlight = 0
  /\ PureIdle
  /\ CliIdle
  /\ UsageIdle
  /\ PruneIdle

\* The API key check and the initialisation of the loop variables.
Start ==
  /\ pc = "start"
  /\ \E apiKeySet \in BOOLEAN :
       pc' = IF apiKeySet THEN "loop" ELSE "NoApiKey"
  /\ UNCHANGED <<trials, attempts, failures, normalized, result, inFlight>>
  /\ UNCHANGED <<pureVars, cliVars, usageVars, pruneVars>>

\* Variant: attempts <= maxAttempts.
LoopCondition_Inclusive(ts, n) == Len(ts) < TargetTrials /\ n <= maxAttempts

\* while (trials.length < 3 && attempts < maxAttempts)
LoopCondition(ts, n) == Len(ts) < TargetTrials /\ n < maxAttempts

\* Variant: the next call of makeTrial is made without awaiting the last one.
BeginAttempt_FanOut ==
  /\ pc \in {"loop", "awaiting"}
  /\ LoopCondition(trials, attempts)
  /\ attempts' = attempts + 1
  /\ inFlight' = inFlight + 1
  /\ pc' = "awaiting"
  /\ UNCHANGED <<trials, failures, normalized, result>>
  /\ UNCHANGED <<pureVars, cliVars, usageVars, pruneVars>>

\* The loop condition holds: attempts++ and the call of makeTrial.
BeginAttempt ==
  /\ pc = "loop"
  /\ LoopCondition(trials, attempts)
  /\ attempts' = attempts + 1
  /\ inFlight' = inFlight + 1
  /\ pc' = "awaiting"
  /\ UNCHANGED <<trials, failures, normalized, result>>
  /\ UNCHANGED <<pureVars, cliVars, usageVars, pruneVars>>

\* makeTrial returned a TrialResult: trials.push(trial).
TrialReturns ==
  /\ pc = "awaiting"
  /\ \E trial \in ReturnedTrials : trials' = Append(trials, trial)
  /\ inFlight' = inFlight - 1
  /\ pc' = "loop"
  /\ UNCHANGED <<attempts, failures, normalized, result>>
  /\ UNCHANGED <<pureVars, cliVars, usageVars, pruneVars>>

\* Variant: a failed attempt is not counted.
TrialThrows_Uncounted ==
  /\ pc = "awaiting"
  /\ ThrowingResponses # {}
  /\ attempts' = attempts - 1
  /\ inFlight' = inFlight - 1
  /\ pc' = "loop"
  /\ UNCHANGED <<trials, failures, normalized, result>>
  /\ UNCHANGED <<pureVars, cliVars, usageVars, pruneVars>>

\* Variant: the catch block records the failed trial as an empty one.
TrialThrows_Recorded ==
  /\ pc = "awaiting"
  /\ ThrowingResponses # {}
  /\ failures' = failures + 1
  /\ trials' = Append(trials, [suggestions |-> <<>>])
  /\ inFlight' = inFlight - 1
  /\ pc' = "loop"
  /\ UNCHANGED <<attempts, normalized, result>>
  /\ UNCHANGED <<pureVars, cliVars, usageVars, pruneVars>>

\* Variant: the error of the trial leaves classifyFile.
TrialThrows_Propagates ==
  /\ pc = "awaiting"
  /\ ThrowingResponses # {}
  /\ failures' = failures + 1
  /\ inFlight' = inFlight - 1
  /\ pc' = "TrialError"
  /\ UNCHANGED <<trials, attempts, normalized, result>>
  /\ UNCHANGED <<pureVars, cliVars, usageVars, pruneVars>>

\* makeTrial threw: the catch block swallows the error.
TrialThrows ==
  /\ pc = "awaiting"
  /\ ThrowingResponses # {}
  /\ failures' = failures + 1
  /\ inFlight' = inFlight - 1
  /\ pc' = "loop"
  /\ UNCHANGED <<trials, attempts, normalized, result>>
  /\ UNCHANGED <<pureVars, cliVars, usageVars, pruneVars>>

\* Variant: fewer than the target number of trials counts as failure.
AllTrialsFailed_BelowTarget(ts) == Len(ts) < TargetTrials

\* if (trials.length === 0) throw
AllTrialsFailed(ts) == Len(ts) = 0

\* The loop condition fails: everything after the loop.
Finish ==
  /\ pc = "loop"
  /\ ~LoopCondition(trials, attempts)
  /\ IF AllTrialsFailed(trials)
       THEN /\ pc' = "NoUsableSamples"
            /\ UNCHANGED <<normalized, result>>
       ELSE LET ranked == normalizeConfidences(aggregateSuggestions(trials))
            IN /\ normalized' = ranked
               /\ IF Len(ranked) = 0
                    THEN /\ pc' = "EmptyAggregate"
                         /\ UNCHANGED result
                    ELSE /\ pc' = "done"
                         /\ result' = ClassificationResult(ranked, trials)
  /\ UNCHANGED <<trials, attempts, failures, inFlight>>
  /\ UNCHANGED <<pureVars, cliVars, usageVars, pruneVars>>

Next ==
  \/ Start
  \/ BeginAttempt
  \/ TrialReturns
  \/ TrialThrows
  \/ Finish

Spec == Init /\ [][Next]_vars

\* The synchronous code after the loop runs to its end: from the loop head
\* with the loop condition false, classifyFile reaches an outcome.  Every
\* Finish step is such a step, and one is possible whenever the condition
\* is false.
FinishCompletes ==
  /\ pc = "loop"
  /\ ~LoopCondition(trials, attempts)
  /\ pc' \in Terminal

\* The sequential loop runs whenever it can: synchronous code runs to its
\* next await, and an awaited call of makeTrial resolves or rejects.
FairSpec ==
  /\ Spec
  /\ WF_vars(Start)
  /\ WF_vars(BeginAttempt)
  /\ WF_vars(TrialReturns \/ TrialThrows)
  /\ WF_pc(FinishCompletes)

-----------------------------------------------------------------------------
(* UsageSpec: classifyFile with the steps of makeTrial told apart *)

\* The responses parsed under UsageSpec: those of at most one suggestion.
UsageResponses ==
  { response \in Responses : response.kind # "networkError" /\ Len(response.items) <= 1 }

\* sessionStats.callCount++
trackUsage(callCount) == callCount + 1

\* await model.generateContent(prompt) rejects: there is no response.
GenerateContentThrows ==
  /\ pc = "awaiting"
  /\ failures' = failures + 1
  /\ inFlight' = inFlight - 1
  /\ pc' = "loop"
  /\ UNCHANGED <<trials, attempts, normalized, result>>
  /\ UNCHANGED <<pureVars, cliVars, usageVars, pruneVars>>

\* await model.generateContent(prompt) resolves: result.response exists.
GenerateContentResolves ==
  /\ pc = "awaiting"
  /\ responded' = responded + 1
  /\ pc' = "responded"
  /\ UNCHANGED usage
  /\ UNCHANGED <<trials, attempts, failures, normalized, result, inFlight>>
  /\ UNCHANGED <<pureVars, cliVars, pruneVars>>

\* response.text() throws (the response carries no usable candidate): the
\* call of trackUsage on the next line is never reached.
TextThrows ==
  /\ pc = "responded"
  /\ failures' = failures + 1
  /\ inFlight' = inFlight - 1
  /\ pc' = "loop"
  /\ UNCHANGED <<trials, attempts, normalized, result>>
  /\ UNCHANGED <<pureVars, cliVars, usageVars, pruneVars>>

\* response.text() returns; trackUsage(response.usageMetadata).
TrackUsage ==
  /\ pc = "responded"
  /\ usage' = trackUsage(usage)
  /\ pc' = "tracked"
  /\ UNCHANGED responded
  /\ UNCHANGED <<trials, attempts, failures, normalized, result, inFlight>>
  /\ UNCHANGED <<pureVars, cliVars, pruneVars>>

\* JSON.parse or the validation throws; the catch block of classifyFile
\* swallows the error.
ParseThrows ==
  /\ pc = "tracked"
  /\ UsageResponses \cap ThrowingResponses # {}
  /\ failures' = failures + 1
  /\ inFlight' = inFlight - 1
  /\ pc' = "loop"
  /\ UNCHANGED <<trials, attempts, normalized, result>>
  /\ UNCHANGED <<pureVars, cliVars, usageVars, pruneVars>>

\* The response is parsed and validated, makeTrial returns: trials.push(trial).
ParseReturns ==
  /\ pc = "tracked"
  /\ \E response \in UsageResponses \ ThrowingResponses :
       trials' = Append(trials, makeTrial(response))
  /\ inFlight' = inFlight - 1
  /\ pc' = "loop"
  /\ UNCHANGED <<attempts, failures, normalized, result>>
  /\ UNCHANGED <<pureVars, cliVars, usageVars, pruneVars>>

UsageNext ==
  \/ Start
  \/ BeginAttempt
  \/ GenerateContentThrows
  \/ GenerateContentResolves
  \/ TextThrows
  \/ TrackUsage
  \/ ParseThrows
  \/ ParseReturns
  \/ Finish

UsageSpec == Init /\ [][UsageNext]_vars

-----------------------------------------------------------------------------
(* PureSpec: makeTrial and aggregateSuggestions on chosen responses *)

\* Items of a wider range than Suggestions: an existing folder whose last
\* path element starts with 'NEW:', a folder that is not in Hierarchy, new
\* folders that differ in parent or in name, an existing folder that carries
\* a stray newFolderName, an item without a boolean isNewFolder, and one
\* item that makeTrial rejects.
WideItems ==
  { Raw(s) : s \in Suggestions }
    \cup { Raw([path |-> <<"Work", "NEW:Tax">>, newFolderName |-> NoName,
                isNewFolder |-> FALSE, confidence |-> 30]),
           Raw([path |-> <<"Ghost">>, newFolderName |-> NoName,
                isNewFolder |-> FALSE, confidence |-> 30]),
           Raw([path |-> <<"Home">>, newFolderName |-> "Tax",
                isNewFolder |-> TRUE, confidence |-> 30]),
           Raw([path |-> <<"Work">>, newFolderName |-> "Bills",
                isNewFolder |-> TRUE, confidence |-> 30]),
           Raw([path |-> <<"Work">>, newFolderName |-> "Tax",
                isNewFolder |-> FALSE, confidence |-> 30]),
           [WorkRaw EXCEPT !.isNewFolderIsBoolean = FALSE],
           [WorkRaw EXCEPT !.confidence = 101] }

WideResponses == { [kind |-> "array", items |-> <<item>>] : item \in WideItems }

PureInit ==
  /\ ClassifyIdle
  /\ CliIdle
  /\ UsageIdle
  /\ PruneIdle
  /\ xPc = "input"
  /\ xResponses \in [1..2 -> WideResponses]
  /\ xTrials = <<>>
  /\ xAggregated = <<>>
  /\ xResult = NoResult

\* The responses makeTrial does not throw on, in order, as TrialResults.
RECURSIVE KeptTrials(_)
KeptTrials(responses) ==
  IF responses = <<>> THEN <<>>
  ELSE IF makeTrialThrows(Head(responses)) THEN KeptTrials(Tail(responses))
  ELSE <<makeTrial(Head(responses))>> \o KeptTrials(Tail(responses))

\* makeTrial on each response; classifyFile keeps what it returns.
XParse ==
  /\ xPc = "input"
  /\ xTrials' = KeptTrials(xResponses)
  /\ xPc' = "parsed"
  /\ UNCHANGED <<xResponses, xAggregated, xResult>>
  /\ UNCHANGED <<classifyVars, cliVars, usageVars, pruneVars>>

\* aggregateSuggestions on the kept trials.
XAggregate ==
  /\ xPc = "parsed"
  /\ xAggregated' = aggregateSuggestions(xTrials)
  /\ xPc' = "aggregated"
  /\ UNCHANGED <<xResponses, xTrials, xResult>>
  /\ UNCHANGED <<classifyVars, cliVars, usageVars, pruneVars>>

\* normalizeConfidences and the decision of classifyFile on a non-empty
\* ranked list.
XDecide ==
  /\ xPc = "aggregated"
  /\ Len(xTrials) > 0
  /\ normalizeConfidences(xAggregated) # <<>>
  /\ xResult' = ClassificationResult(normalizeConfidences(xAggregated), xTrials)
  /\ xPc' = "decided"
  /\ UNCHANGED <<xResponses, xTrials, xAggregated>>
  /\ UNCHANGED <<classifyVars, cliVars, usageVars, pruneVars>>

PureNext ==
  \/ XParse
  \/ XAggregate
  \/ XDecide

PureSpec == PureInit /\ [][PureNext]_vars

-----------------------------------------------------------------------------
(* CliSpec: the batch and the single-file command line on one file *)

\* The samples behind the results classifyFile hands to the command lines:
\* one to TargetTrials samples of one suggestion each.
CliTrials ==
  UNION { [1..n -> { [suggestions |-> <<s>>] : s \in Suggestions }] : n \in 1..TargetTrials }

CliResults ==
  { ClassificationResult(normalizeConfidences(aggregateSuggestions(ts)), ts) : ts \in CliTrials }

\* choice.isNewFolder && choice.newFolderName ? [...path, newFolderName] : path
DestinationPath(choice) ==
  IF choice.isNewFolder /\ choice.newFolderName # NoName
    THEN Append(choice.path, choice.newFolderName)
    ELSE choice.path

\* The folders on disk when the command line starts.
InitialFolders ==
  { {<<"Home">>} \cup work \cup unsorted :
      work \in { {}, {<<"Work">>}, {<<"Work">>, <<"Work", "Tax">>} },
      unsorted \in { {}, {<<"Unsorted">>} } }

\* The folders that may already hold a file with the source's name.
Collisions(folders) == { {} } \cup { {f} : f \in folders }

InitialDisks ==
  UNION { { [sourceExists |-> TRUE, renamed |-> FALSE, folders |-> folders,
             destFiles |-> destFiles, hierarchyJson |-> Hierarchy] :
              destFiles \in Collisions(folders) } : folders \in InitialFolders }

\* What the oracle may answer to "Where should this go?".
Interpretations ==
  { <<>>,
    << [path |-> <<"Home">>, confidence |-> 90, isNewFolder |-> FALSE, newFolderPath |-> <<>>] >>,
    << [path |-> <<"Work">>, confidence |-> 80, isNewFolder |-> TRUE, newFolderPath |-> <<"Tax">>],
       [path |-> <<"Home">>, confidence |-> 20, isNewFolder |-> FALSE, newFolderPath |-> <<>>] >> }

CliInit ==
  /\ ClassifyIdle
  /\ PureIdle
  /\ UsageIdle
  /\ PruneIdle
  /\ cPc = "start"
  /\ cTool \in {"batch", "single"}
  /\ cAuto \in BOOLEAN
  /\ cDry \in BOOLEAN
  /\ cThrew = FALSE
  /\ cResult = NoResult
  /\ cTarget = <<>>
  /\ cIsNew = FALSE
  /\ cAlternatives = <<>>
  /\ cPrompted = FALSE
  /\ cAction = "none"
  /\ cTally = NoTally
  /\ disk \in InitialDisks

cliConfig == <<cTool, cAuto, cDry>>

cliCurrent == <<cTarget, cIsNew, cAlternatives>>

\* The command line is done with the file; the batch's main counts it.
Return(action) ==
  /\ cPc' = "end"
  /\ cAction' = action
  /\ cTally' = IF cTool # "batch" \/ action = "quit" THEN cTally
               ELSE IF action = "moved" THEN [cTally EXCEPT !.moved = @ + 1]
               ELSE IF action = "skipped" THEN [cTally EXCEPT !.skipped = @ + 1]
               ELSE [cTally EXCEPT !.errors = @ + 1]

\* classifyFile returns a result; targetPath is computed.
CliClassify ==
  /\ cPc = "start"
  /\ \E r \in CliResults :
       /\ cResult' = r
       /\ cTarget' = DestinationPath(r.topChoice)
       /\ cIsNew' = r.topChoice.isNewFolder
       /\ cAlternatives' = r.alternatives
  /\ cPc' = "classified"
  /\ UNCHANGED <<usageVars, pruneVars, classifyVars, pureVars, cliConfig, cThrew, cPrompted, cAction, cTally, disk>>

\* classifyFile throws: the batch returns 'error', the single-file tool exits 1.
CliClassifyThrows ==
  /\ cPc = "start"
  /\ cThrew' = TRUE
  /\ Return("error")
  /\ UNCHANGED <<usageVars, pruneVars, classifyVars, pureVars, cliConfig, cResult, cliCurrent, cPrompted, disk>>

\* A dry run that moves the file all the same.
BatchDry_Moves ==
  /\ cPc = "classified" /\ cTool = "batch" /\ cDry
  /\ \E io \in RenameOutcomes :
       disk' = moveFile(disk, cTarget, cIsNew, io).disk
  /\ Return("skipped")
  /\ UNCHANGED <<usageVars, pruneVars, classifyVars, pureVars, cliConfig, cThrew, cResult, cliCurrent, cPrompted>>

\* if (dryRun): dryRunMove reports, the batch returns 'skipped'.
BatchDry ==
  /\ cPc = "classified" /\ cTool = "batch" /\ cDry
  /\ dryRunMove(disk, cTarget) \in BOOLEAN
  /\ Return("skipped")
  /\ UNCHANGED <<usageVars, pruneVars, classifyVars, pureVars, cliConfig, cThrew, cResult, cliCurrent, cPrompted, disk>>

\* An auto mode that does not look at needsReview.
BatchAuto_IgnoresReview ==
  /\ cPc = "classified" /\ cTool = "batch" /\ ~cDry
  /\ cAuto
  /\ \E io \in RenameOutcomes :
       LET moveResult == moveFile(disk, cTarget, cResult.topChoice.isNewFolder, io)
       IN /\ disk' = moveResult.disk
          /\ Return(IF moveResult.success THEN "moved" ELSE "error")
  /\ UNCHANGED <<usageVars, pruneVars, classifyVars, pureVars, cliConfig, cThrew, cResult, cliCurrent, cPrompted>>

\* if (autoMode && !result.needsReview): moveFile without a prompt.
BatchAuto ==
  /\ cPc = "classified" /\ cTool = "batch" /\ ~cDry
  /\ cAuto /\ ~cResult.needsReview
  /\ \E io \in RenameOutcomes :
       LET moveResult == moveFile(disk, cTarget, cResult.topChoice.isNewFolder, io)
       IN /\ disk' = moveResult.disk
          /\ Return(IF moveResult.success THEN "moved" ELSE "error")
  /\ UNCHANGED <<usageVars, pruneVars, classifyVars, pureVars, cliConfig, cThrew, cResult, cliCurrent, cPrompted>>

\* Interactive mode: the loop is entered and ask is pending.
BatchInteractive ==
  /\ cPc = "classified" /\ cTool = "batch" /\ ~cDry
  /\ ~(cAuto /\ ~cResult.needsReview)
  /\ cPc' = "prompt"
  /\ UNCHANGED <<usageVars, pruneVars, classifyVars, pureVars, cliConfig, cThrew, cResult, cliCurrent, cPrompted,
                 cAction, cTally, disk>>

\* Answers 'o', 'p', 's', and 'r' or 't' given up: the loop continues.
BatchInspect ==
  /\ cPc = "prompt" /\ cTool = "batch"
  /\ cPrompted' = TRUE
  /\ UNCHANGED <<usageVars, pruneVars, classifyVars, pureVars, cPc, cliConfig, cThrew, cResult, cliCurrent,
                 cAction, cTally, disk>>

\* Answer 'r' confirmed: fs.renameSync in the source's folder; other folders
\* may hold a file with the new name.
BatchRename ==
  /\ cPc = "prompt" /\ cTool = "batch"
  /\ cPrompted' = TRUE
  /\ \E destFiles \in Collisions(disk.folders) :
       disk' = [disk EXCEPT !.renamed = TRUE, !.destFiles = destFiles]
  /\ UNCHANGED <<usageVars, pruneVars, classifyVars, pureVars, cPc, cliConfig, cThrew, cResult, cliCurrent,
                 cAction, cTally>>

\* currentAlternatives after answer 't': interpretedSuggestions.slice(1).map(...)
InterpretedAlternatives(interpreted) ==
  [i \in 1..(Len(interpreted) - 1) |->
     LET s == interpreted[i + 1]
     IN [path |-> IF s.isNewFolder THEN s.path \o s.newFolderPath ELSE s.path,
         newFolderName |-> NoName,
         isNewFolder |-> s.isNewFolder,
         normalizedConfidence |-> [num |-> s.confidence, den |-> 1]]]

\* Answer 't' with a destination: the oracle's interpretation replaces the
\* current target and alternatives; an empty interpretation changes nothing.
BatchRetarget ==
  /\ cPc = "prompt" /\ cTool = "batch"
  /\ cPrompted' = TRUE
  /\ \E interpreted \in Interpretations :
       IF Len(interpreted) > 0
         THEN LET top == interpreted[1]
              IN /\ cTarget' = IF top.isNewFolder /\ top.newFolderPath # <<>>
                                 THEN top.path \o top.newFolderPath
                                 ELSE top.path
                 /\ cIsNew' = (top.isNewFolder /\ top.newFolderPath # <<>>)
                 /\ cAlternatives' = InterpretedAlternatives(interpreted)
         ELSE UNCHANGED cliCurrent
  /\ UNCHANGED <<usageVars, pruneVars, classifyVars, pureVars, cPc, cliConfig, cThrew, cResult, cAction, cTally, disk>>

\* Answer 'q'.
BatchQuit ==
  /\ cPc = "prompt" /\ cTool = "batch"
  /\ cPrompted' = TRUE
  /\ Return("quit")
  /\ UNCHANGED <<usageVars, pruneVars, classifyVars, pureVars, cliConfig, cThrew, cResult, cliCurrent, disk>>

\* Answer 'n' or the empty answer: move to Unsorted, never creating it.
BatchNo ==
  /\ cPc = "prompt" /\ cTool = "batch"
  /\ cPrompted' = TRUE
  /\ \E io \in RenameOutcomes :
       LET moveResult == moveFile(disk, <<"Unsorted">>, FALSE, io)
       IN /\ disk' = moveResult.disk
          /\ Return(IF moveResult.success THEN "moved" ELSE "skipped")
  /\ UNCHANGED <<usageVars, pruneVars, classifyVars, pureVars, cliConfig, cThrew, cResult, cliCurrent>>

\* Answer 'y': move to the current target.
BatchYes ==
  /\ cPc = "prompt" /\ cTool = "batch"
  /\ cPrompted' = TRUE
  /\ \E io \in RenameOutcomes :
       LET moveResult == moveFile(disk, cTarget, cIsNew, io)
       IN /\ disk' = moveResult.disk
          /\ Return(IF moveResult.success THEN "moved" ELSE "error")
  /\ UNCHANGED <<usageVars, pruneVars, classifyVars, pureVars, cliConfig, cThrew, cResult, cliCurrent>>

\* Answer '1', '2' or '3': move to that alternative, or to the current
\* target when there is no such alternative.
BatchAlt ==
  /\ cPc = "prompt" /\ cTool = "batch"
  /\ cPrompted' = TRUE
  /\ \E answer \in 1..3, io \in RenameOutcomes :
       LET hasAlt == answer - 1 < Len(cAlternatives)
           chosenPath == IF hasAlt THEN DestinationPath(cAlternatives[answer]) ELSE cTarget
           isNewFolder == IF hasAlt THEN cAlternatives[answer].isNewFolder ELSE cIsNew
           moveResult == moveFile(disk, chosenPath, isNewFolder, io)
       IN /\ disk' = moveResult.disk
          /\ Return(IF moveResult.success THEN "moved" ELSE "error")
  /\ UNCHANGED <<usageVars, pruneVars, classifyVars, pureVars, cliConfig, cThrew, cResult, cliCurrent>>

\* Any other answer.
BatchOther ==
  /\ cPc = "prompt" /\ cTool = "batch"
  /\ cPrompted' = TRUE
  /\ Return("skipped")
  /\ UNCHANGED <<usageVars, pruneVars, classifyVars, pureVars, cliConfig, cThrew, cResult, cliCurrent, disk>>

\* Single-file tool, if (dryRun): dryRunMove reports, exit 0.
SingleDry ==
  /\ cPc = "classified" /\ cTool = "single" /\ cDry
  /\ dryRunMove(disk, cTarget) \in BOOLEAN
  /\ Return("skipped")
  /\ UNCHANGED <<usageVars, pruneVars, classifyVars, pureVars, cliConfig, cThrew, cResult, cliCurrent, cPrompted, disk>>

\* Single-file tool, if (autoMode && !result.needsReview).
SingleAuto ==
  /\ cPc = "classified" /\ cTool = "single" /\ ~cDry
  /\ cAuto /\ ~cResult.needsReview
  /\ \E io \in RenameOutcomes :
       LET moveResult == moveFile(disk, cTarget, cResult.topChoice.isNewFolder, io)
       IN /\ disk' = moveResult.disk
          /\ Return(IF moveResult.success THEN "moved" ELSE "error")
  /\ UNCHANGED <<usageVars, pruneVars, classifyVars, pureVars, cliConfig, cThrew, cResult, cliCurrent, cPrompted>>

\* Single-file tool, interactive mode: the choices are listed and ask is pending.
SingleInteractive ==
  /\ cPc = "classified" /\ cTool = "single" /\ ~cDry
  /\ ~(cAuto /\ ~cResult.needsReview)
  /\ cPc' = "prompt"
  /\ UNCHANGED <<usageVars, pruneVars, classifyVars, pureVars, cliConfig, cThrew, cResult, cliCurrent, cPrompted,
                 cAction, cTally, disk>>

\* The answers parseInt can make of the user's input; 0 stands for NaN.
SingleAnswers == 0..5

\* Single-file tool, the user's choice.
SingleChoose ==
  /\ cPc = "prompt" /\ cTool = "single"
  /\ cPrompted' = TRUE
  /\ \E choice \in SingleAnswers, io \in RenameOutcomes :
       LET shown == IF Len(cResult.alternatives) < 2 THEN Len(cResult.alternatives) ELSE 2
           choicesLength == shown + 2
       IN IF choice < 1 \/ choice > choicesLength \/ choice = choicesLength
            THEN /\ Return("skipped")
                 /\ UNCHANGED disk
            ELSE LET alt == cResult.alternatives[choice - 1]
                     chosenPath == IF choice = 1 THEN cTarget ELSE DestinationPath(alt)
                     isNewFolder == IF choice = 1 THEN cResult.topChoice.isNewFolder
                                    ELSE alt.isNewFolder
                     moveResult == moveFile(disk, chosenPath, isNewFolder, io)
                 IN /\ disk' = moveResult.disk
                    /\ Return(IF moveResult.success THEN "moved" ELSE "error")
  /\ UNCHANGED <<usageVars, pruneVars, classifyVars, pureVars, cliConfig, cThrew, cResult, cliCurrent>>

CliNext ==
  \/ CliClassify
  \/ CliClassifyThrows
  \/ BatchDry
  \/ BatchAuto
  \/ BatchInteractive
  \/ BatchInspect
  \/ BatchRename
  \/ BatchRetarget
  \/ BatchQuit
  \/ BatchOther
  \/ BatchNo
  \/ BatchYes
  \/ BatchAlt
  \/ SingleDry
  \/ SingleAuto
  \/ SingleInteractive
  \/ SingleChoose

CliSpec == CliInit /\ [][CliNext]_vars

-----------------------------------------------------------------------------
(* PruneSpec: the hierarchy pruning tool (prune-hierarchy) *)

\* A hierarchy object as the tool walks it: its keys in Object.keys order,
\* each with its child object.
Entry(name, node) == [name |-> name, node |-> node]

\* hierarchy-generated.json
PruneInput ==
  << Entry("Work", << Entry("Projects", << Entry("A", <<>>) >>), Entry("Tax", <<>>) >>),
     Entry("Home", << Entry("Garden", <<>>) >>) >>

RECURSIVE countDescendants(_)
countDescendants(node) ==
  LET Sum[k \in 0..Len(node)] ==
        IF k = 0 THEN 0 ELSE Sum[k - 1] + countDescendants(node[k].node)
  IN Len(node) + Sum[Len(node)]

truncateChildren(node) == [k \in 1..Len(node) |-> Entry(node[k].name, <<>>)]

\* A call of processNode that is waiting at its first prompt.  mode is
\* "ask" (Choice:), "select" (Selection:), "recurse" (the loop of answer 'r'
\* waiting at the prompt for child i) or "selectLoop" (the loop of answer 's'
\* at child i).
Frame(node, path) ==
  [node |-> node, path |-> path, result |-> <<>>, mode |-> "ask", i |-> 1,
   toKeep |-> {}, toRecurse |-> {}]

\* Runs the synchronous code of the pending calls up to the next prompt, or
\* to the return of the outermost call.  hasValue: the innermost pending call
\* has just received value from the call it awaited.
RECURSIVE Resume(_, _, _)
Resume(stack, hasValue, value) ==
  IF stack = <<>> THEN [stack |-> <<>>, finished |-> TRUE, value |-> value]
  ELSE
    LET f == stack[Len(stack)]
        rest == SubSeq(stack, 1, Len(stack) - 1)
        Keep(v) == Append(rest, [f EXCEPT !.result = Append(@, Entry(f.node[f.i].name, v)),
                                          !.i = @ + 1])
        Skip == Append(rest, [f EXCEPT !.i = @ + 1])
    IN IF hasValue THEN Resume(Keep(value), FALSE, <<>>)
       ELSE IF f.mode \in {"ask", "select"}
         THEN [stack |-> stack, finished |-> FALSE, value |-> <<>>]
       ELSE IF f.i > Len(f.node) THEN Resume(rest, TRUE, f.result)
       ELSE IF f.mode = "recurse"
         THEN [stack |-> stack, finished |-> FALSE, value |-> <<>>]
       ELSE IF f.i \notin f.toKeep THEN Resume(Skip, FALSE, <<>>)
       ELSE IF f.i \notin f.toRecurse THEN Resume(Keep(f.node[f.i].node), FALSE, <<>>)
       ELSE IF f.node[f.i].node = <<>> THEN Resume(Keep(<<>>), FALSE, <<>>)
       ELSE [stack |-> Append(stack, Frame(f.node[f.i].node, Append(f.path, f.node[f.i].name))),
             finished |-> FALSE, value |-> <<>>]

PruneInit ==
  /\ ClassifyIdle
  /\ PureIdle
  /\ CliIdle
  /\ UsageIdle
  /\ pPc = "start"
  /\ pStack = <<>>
  /\ pDecisions = 0
  /\ pWritten = FALSE
  /\ pOutput = <<>>

PTop == pStack[Len(pStack)]

PRest == SubSeq(pStack, 1, Len(pStack) - 1)

\* The tool goes on to the next prompt, or main receives the result and
\* writes it to the output file.
Continue(r) ==
  /\ pStack' = r.stack
  /\ IF r.finished
       THEN /\ pPc' = "saved"
            /\ pWritten' = TRUE
            /\ pOutput' = r.value
       ELSE /\ pPc' = "running"
            /\ UNCHANGED <<pWritten, pOutput>>

\* main up to the first prompt.
PLoad ==
  /\ pPc = "start"
  /\ \E inputExists \in BOOLEAN :
       IF inputExists
         THEN Continue(Resume(<<Frame(PruneInput, <<>>)>>, FALSE, <<>>))
         ELSE /\ pPc' = "NoInput"
              /\ UNCHANGED <<pStack, pWritten, pOutput>>
  /\ UNCHANGED pDecisions
  /\ UNCHANGED <<classifyVars, pureVars, cliVars, usageVars>>

AtPrompt(mode) == pPc = "running" /\ pStack # <<>> /\ PTop.mode = mode

\* Choice 'q': USER_QUIT is thrown through every pending call; main exits.
PQuit ==
  /\ AtPrompt("ask")
  /\ pPc' = "quit"
  /\ UNCHANGED <<pStack, pDecisions, pWritten, pOutput>>
  /\ UNCHANGED <<classifyVars, pureVars, cliVars, usageVars>>

\* Choice 'k', or an unknown choice: the subtree is kept as it is.
PKeep ==
  /\ AtPrompt("ask")
  /\ pDecisions' = pDecisions + 1
  /\ Continue(Resume(PRest, TRUE, PTop.node))
  /\ UNCHANGED <<classifyVars, pureVars, cliVars, usageVars>>

\* Choice 'p'.
PPrune ==
  /\ AtPrompt("ask")
  /\ pDecisions' = pDecisions + 1
  /\ Continue(Resume(PRest, TRUE, <<>>))
  /\ UNCHANGED <<classifyVars, pureVars, cliVars, usageVars>>

\* Choice 't'.
PTruncate ==
  /\ AtPrompt("ask")
  /\ pDecisions' = pDecisions + 1
  /\ Continue(Resume(PRest, TRUE, truncateChildren(PTop.node)))
  /\ UNCHANGED <<classifyVars, pureVars, cliVars, usageVars>>

\* Choice 'r': the children are gone through one by one.
PRecurse ==
  /\ AtPrompt("ask")
  /\ Continue(Resume(Append(PRest, [PTop EXCEPT !.mode = "recurse"]), FALSE, <<>>))
  /\ UNCHANGED pDecisions
  /\ UNCHANGED <<classifyVars, pureVars, cliVars, usageVars>>

\* Choice 's': the children are listed and the selection is asked for.
PSelect ==
  /\ AtPrompt("ask")
  /\ Continue(Resume(Append(PRest, [PTop EXCEPT !.mode = "select"]), FALSE, <<>>))
  /\ UNCHANGED pDecisions
  /\ UNCHANGED <<classifyVars, pureVars, cliVars, usageVars>>

\* The selection: 'all', 'none', or a list of numbers to keep, some of them
\* with 'r:'; anything else in the list is ignored.
PSelection ==
  /\ AtPrompt("select")
  /\ pDecisions' = pDecisions + 1
  /\ \E selection \in {"all", "none", "list"} :
       CASE selection = "all" -> Continue(Resume(PRest, TRUE, PTop.node))
         [] selection = "none" -> Continue(Resume(PRest, TRUE, <<>>))
         [] selection = "list" ->
              \E toKeep \in SUBSET (1..Len(PTop.node)) :
                \E toRecurse \in SUBSET toKeep :
                  Continue(Resume(Append(PRest, [PTop EXCEPT !.mode = "selectLoop",
                                                            !.toKeep = toKeep,
                                                            !.toRecurse = toRecurse]),
                                  FALSE, <<>>))
  /\ UNCHANGED <<classifyVars, pureVars, cliVars, usageVars>>

\* Keep "key"? [y/n] for a child without descendants.
PChildLeaf ==
  /\ AtPrompt("recurse")
  /\ countDescendants(PTop.node[PTop.i].node) = 0
  /\ pDecisions' = pDecisions + 1
  /\ \E keepIt \in BOOLEAN :
       LET f == IF keepIt
                  THEN [PTop EXCEPT !.result = Append(@, Entry(PTop.node[PTop.i].name, <<>>)),
                                   !.i = @ + 1]
                  ELSE [PTop EXCEPT !.i = @ + 1]
       IN Continue(Resume(Append(PRest, f), FALSE, <<>>))
  /\ UNCHANGED <<classifyVars, pureVars, cliVars, usageVars>>

\* [k]eep all / [p]rune / [t]runcate / [r]ecurse into it, for a child with
\* descendants; any other answer keeps it.
PChild ==
  /\ AtPrompt("recurse")
  /\ countDescendants(PTop.node[PTop.i].node) > 0
  /\ \E childAnswer \in {"k", "p", "t", "r", "other"} :
       LET child == PTop.node[PTop.i]
           Kept(v) == [PTop EXCEPT !.result = Append(@, Entry(child.name, v)), !.i = @ + 1]
       IN /\ pDecisions' = IF childAnswer = "r" THEN pDecisions ELSE pDecisions + 1
          /\ CASE childAnswer \in {"k", "other"} ->
                    Continue(Resume(Append(PRest, Kept(child.node)), FALSE, <<>>))
               [] childAnswer = "p" ->
                    Continue(Resume(Append(PRest, [PTop EXCEPT !.i = @ + 1]), FALSE, <<>>))
               [] childAnswer = "t" ->
                    Continue(Resume(Append(PRest, Kept(truncateChildren(child.node))), FALSE, <<>>))
               [] childAnswer = "r" ->
                    Continue(Resume(Append(pStack, Frame(child.node, Append(PTop.path, child.name))),
                                    FALSE, <<>>))
  /\ UNCHANGED <<classifyVars, pureVars, cliVars, usageVars>>

PruneNext ==
  \/ PLoad
  \/ PQuit
  \/ PKeep
  \/ PPrune
  \/ PTruncate
  \/ PRecurse
  \/ PSelect
  \/ PSelection
  \/ PChildLeaf
  \/ PChild

PruneSpec == PruneInit /\ [][PruneNext]_vars

-----------------------------------------------------------------------------
(* Vocabulary of the properties *)

Has(reasons, r) == \E i \in 1..Len(reasons) : reasons[i] = r

Returned == pc = "done"

\* The ranked candidate the result's topChoice was built from.
Top == normalized[1]

\* x < n and x < k * y on normalized confidences, written out.
Below(x, n) == x.num < n * x.den
BelowTimes(x, k, y) == x.num * y.den < k * y.num * x.den

\* The candidate identity of a ranked candidate, and the number of collected
\* samples that propose it at least once.
KeyOf(n) == IF n.isNewFolder THEN <<n.path, "new", n.newFolderName>> ELSE <<n.path, "existing", NoName>>

Proposes(trial, n) ==
  \E j \in 1..Len(trial.suggestions) : KeyOf(trial.suggestions[j]) = KeyOf(n)

SamplesProposing(n) == Cardinality({ i \in 1..Len(trials) : Proposes(trials[i], n) })

\* Every collected sample proposes something, and none proposes the same
\* candidate twice.
EverySampleProposes == \A i \in 1..Len(trials) : trials[i].suggestions # <<>>

NoSampleRepeats ==
  \A i \in 1..Len(trials) :
    \A j, k \in 1..Len(trials[i].suggestions) :
      KeyOf(trials[i].suggestions[j]) = KeyOf(trials[i].suggestions[k]) => j = k

-----------------------------------------------------------------------------
(* Rule 3: new-destination caution *)

C2_NotUnanimousNeverDominant ==
  (Returned /\ Top.isNewFolder /\ EverySampleProposes
     /\ SamplesProposing(Top) < Len(trials)) =>
    (/\ ~result.isDominant
     /\ Has(result.reviewReasons, "new folder suggestion needs verification"))

-----------------------------------------------------------------------------
(* Rule 4: new folder proposed by a single sample *)

\* C3: 'new folder suggested in only one trial' is present, and the result
\* not dominant, iff some ranked candidate is a new folder proposed by
\* exactly one sample.  Stated for non-empty samples.
C3_SingleSampleNewFolder ==
  (Returned /\ EverySampleProposes) =>
    LET single == \E i \in 1..Len(normalized) :
                    normalized[i].isNewFolder /\ SamplesProposing(normalized[i]) = 1
    IN /\ single => (/\ ~result.isDominant
                     /\ Has(result.reviewReasons, "new folder suggested in only one trial"))
       /\ ~single => ~Has(result.reviewReasons, "new folder suggested in only one trial")

-----------------------------------------------------------------------------
(* Rules 1 and 2 *)

\* C4: 'low absolute confidence' is present iff the top choice's normalized
\* confidence is below 50, and a dominant result has a top choice of at
\* least 50.
C4_AbsoluteThreshold ==
  Returned =>
    /\ Has(result.reviewReasons, "low absolute confidence")
         <=> Below(result.topChoice.normalizedConfidence, 50)
    /\ result.isDominant => ~Below(result.topChoice.normalizedConfidence, 50)

C4_Witness ==
  /\ Returned
  /\ Below(result.topChoice.normalizedConfidence, 50)
  /\ Has(result.reviewReasons, "low absolute confidence")

\* C5: 'close alternatives' is present iff there is an alternative and the
\* top choice is below twice the best alternative; a dominant result has no
\* alternative or a top choice of at least twice the best alternative.
C5_RelativeDominance ==
  Returned =>
    LET close == /\ Len(result.alternatives) > 0
                 /\ BelowTimes(result.topChoice.normalizedConfidence, 2,
                               result.alternatives[1].normalizedConfidence)
    IN /\ Has(result.reviewReasons, "close alternatives") <=> close
       /\ result.isDominant => ~close

\* Top at exactly twice the best alternative (two thirds against one third):
\* rule 2 passes and the result is dominant.
C5_Witness ==
  /\ Returned /\ result.isDominant
  /\ Len(result.alternatives) > 0
  /\ result.topChoice.normalizedConfidence.num
       = 2 * result.alternatives[1].normalizedConfidence.num
  /\ ~Has(result.reviewReasons, "close alternatives")

\* C6: exactly one of isDominant and needsReview is true, and there is no
\* review reason (reviewReason undefined) iff isDominant.
C6_VerdictConsistency ==
  Returned =>
    /\ result.needsReview = ~result.isDominant
    /\ (result.reviewReasons = <<>>) <=> result.isDominant
    /\ (result.reviewReason = Undefined) <=> result.isDominant

\* A result that needs review for rule 4 alone.
C6_Witness ==
  /\ Returned /\ result.needsReview
  /\ result.reviewReasons = <<"new folder suggested in only one trial">>
  /\ result.reviewReason = "new folder suggested in only one trial"

-----------------------------------------------------------------------------
(* The sampling loop *)

\* C7: the oracle is invoked at most maxAttempts = 6 times; an invocation
\* starts only with fewer than 3 samples and fewer than 6 attempts; and at
\* the loop head with fewer than 3 samples and fewer than 6 attempts the
\* only step is the next invocation.
C7_SamplerBound ==
  /\ [](attempts <= 6)
  /\ [][/\ attempts' # attempts =>
             (attempts' = attempts + 1 /\ Len(trials) < 3 /\ attempts < 6)
        /\ (pc = "loop" /\ Len(trials) < 3 /\ attempts < 6) =>
             (pc' = "awaiting" /\ attempts' = attempts + 1)]_vars

\* Early stop: three samples after fewer than six attempts, and the call is over.
C7_Witness ==
  /\ pc \in Terminal /\ Len(trials) = 3 /\ attempts < 6

\* C8: 'All classification trials failed' is raised only with zero samples
\* after exactly 6 invocations, and a run in which every invocation failed
\* ends with it after exactly 6 invocations.
C8_NoUsableSamples ==
  /\ pc = "NoUsableSamples" => (attempts = 6 /\ failures = 6 /\ Len(trials) = 0)
  /\ (pc \in {"done", "EmptyAggregate", "NoUsableSamples"} /\ failures = attempts) =>
       (pc = "NoUsableSamples" /\ attempts = 6)

C8_Witness == pc = "NoUsableSamples" /\ failures = 6

\* C9: attempts = samples collected + failed invocations (plus the one in
\* flight); a failed invocation leaves the samples unchanged and is counted
\* as one attempt; three samples after k failures take exactly 3 + k
\* attempts, k <= 3.
C9_AttemptAccounting ==
  /\ [](attempts = Len(trials) + failures + (IF pc = "awaiting" THEN 1 ELSE 0))
  /\ [][failures' # failures =>
          (/\ failures' = failures + 1
           /\ trials' = trials
           /\ attempts' = Len(trials') + failures')]_vars
  /\ []((pc \in Terminal /\ Len(trials) = 3) => (attempts = 3 + failures /\ failures <= 3))

\* Two failures and three successes: five attempts, no sixth.
C9_Witness ==
  /\ pc \in Terminal /\ Len(trials) = 3 /\ failures = 2 /\ attempts = 5

\* C10: every sample kept in trials holds at least one suggestion (an empty
\* response does not count toward the quota).
C10_SamplesNonEmpty ==
  /\ \A i \in 1..Len(trials) : Len(trials[i].suggestions) >= 1
  /\ \A i \in 1..Len(result.rawTrials) : Len(result.rawTrials[i].suggestions) >= 1

-----------------------------------------------------------------------------
(* Aggregation and ranking *)

\* All suggestions of a list of samples, in order.
RECURSIVE AllSuggestions(_)
AllSuggestions(ts) ==
  IF ts = <<>> THEN <<>> ELSE Head(ts).suggestions \o AllSuggestions(Tail(ts))

\* The path key of a suggestion or of a ranked candidate.
PathKeyOf(n) == getPathKey(n.path, n.newFolderName, n.isNewFolder)

\* The summed confidence of the suggestions in sugs that carry key.
RECURSIVE MassOf(_, _)
MassOf(key, sugs) ==
  IF sugs = <<>> THEN 0
  ELSE (IF PathKeyOf(Head(sugs)) = key THEN Head(sugs).confidence ELSE 0)
         + MassOf(key, Tail(sugs))

\* The summed confidence of all suggestions in sugs.
RECURSIVE GrandTotal(_)
GrandTotal(sugs) ==
  IF sugs = <<>> THEN 0 ELSE Head(sugs).confidence + GrandTotal(Tail(sugs))

\* The reorderings of a list of samples.
Reorderings(ts) ==
  { [i \in 1..Len(ts) |-> ts[f[i]]] :
      f \in { g \in [1..Len(ts) -> 1..Len(ts)] :
                \A i, j \in 1..Len(ts) : g[i] = g[j] => i = j } }

\* C11: every reordering of the collected samples gives the same ranked
\* list (candidates, counts, normalized confidences and order) and the same
\* result.  Stated for non-empty samples.
C11_OrderIndependent ==
  (Returned /\ EverySampleProposes) =>
    \A ts \in Reorderings(trials) :
      LET ranked == normalizeConfidences(aggregateSuggestions(ts))
      IN /\ ranked = normalized
         /\ ClassificationResult(ranked, ts).topChoice = result.topChoice
         /\ ClassificationResult(ranked, ts).isDominant = result.isDominant

\* C12: of two ranked candidates, the one with the strictly greater summed
\* confidence over all samples stands strictly earlier; the top choice has
\* maximal summed confidence.
C12_RankedByMass ==
  Returned =>
    \A i, j \in 1..Len(normalized) :
      MassOf(PathKeyOf(normalized[i]), AllSuggestions(trials))
        > MassOf(PathKeyOf(normalized[j]), AllSuggestions(trials)) => i < j

\* Home proposed three times at 30 (90) is ranked first, above Work proposed
\* once at 60.
C12_Witness ==
  /\ Returned
  /\ Top.path = <<"Home">> /\ Top.count = 3
  /\ \E j \in 2..Len(normalized) :
       normalized[j].path = <<"Work">> /\ ~normalized[j].isNewFolder
         /\ normalized[j].count = 1

\* C13: the count of every ranked candidate is the number of samples that
\* propose it, and never exceeds the number of samples.  Stated for
\* non-empty samples.
C13_CountIsSamples ==
  (Returned /\ EverySampleProposes) =>
    \A i \in 1..Len(normalized) :
      /\ normalized[i].count = SamplesProposing(normalized[i])
      /\ normalized[i].count <= Len(trials)

\* C14: two suggestions are merged into one aggregated candidate iff they
\* have the same path, the same isNewFolder flag and, when new, the same
\* new-folder name.
C14_CandidateIdentity ==
  (xPc = "aggregated" /\ Len(xTrials) = 2) =>
    (Len(xAggregated) = 1
       <=> KeyOf(xTrials[1].suggestions[1]) = KeyOf(xTrials[2].suggestions[1]))

\* C15: the normalized confidences of topChoice and the alternatives sum to
\* 100, each is 100 * (summed confidence of the candidate) / (summed
\* confidence of all suggestions), and each lies in [0, 100].
C15_SumsToHundred ==
  Returned =>
    LET ranked == <<result.topChoice>> \o result.alternatives
        total == GrandTotal(AllSuggestions(trials))
        Num(i) == ranked[i].normalizedConfidence.num
        Den(i) == ranked[i].normalizedConfidence.den
        NumSum[k \in 0..Len(ranked)] == IF k = 0 THEN 0 ELSE NumSum[k - 1] + Num(k)
    IN /\ \A i \in 1..Len(ranked) :
            /\ Den(i) = Den(1) /\ Den(i) > 0
            /\ Num(i) * total
                 = 100 * MassOf(PathKeyOf(ranked[i]), AllSuggestions(trials)) * Den(i)
            /\ 0 <= Num(i) /\ Num(i) <= 100 * Den(i)
       /\ NumSum[Len(ranked)] = 100 * Den(1)

\* Three candidates sharing the mass, none of them with all of it.
C15_Witness ==
  /\ Returned /\ Len(result.alternatives) = 2
  /\ Below(result.topChoice.normalizedConfidence, 50)

\* C16: with at least one sample collected, 'No valid suggestions received
\* from any trial' is thrown iff the summed confidence of all suggestions is
\* 0 (no candidate, or only zero-confidence ones); then there is no result
\* and nothing further happens.
C16_EmptyAggregate ==
  /\ []((pc \in {"done", "EmptyAggregate"}) =>
          /\ Len(trials) >= 1
          /\ pc = "EmptyAggregate" <=> GrandTotal(AllSuggestions(trials)) = 0)
  /\ [](pc = "EmptyAggregate" => (result = NoResult /\ normalized = <<>>))
  /\ [][pc = "EmptyAggregate" => UNCHANGED vars]_vars

\* The candidate set is not empty, yet its total is 0.
C16_Witness ==
  /\ pc = "EmptyAggregate"
  /\ \E i \in 1..Len(trials) : trials[i].suggestions # <<>>

\* C17: every existing-folder suggestion that makeTrial lets through, and so
\* every existing-folder candidate that is aggregated, has a path that
\* resolves in the hierarchy.
C17_PathsResolve ==
  /\ \A i \in 1..Len(xTrials) :
       \A j \in 1..Len(xTrials[i].suggestions) :
         ~xTrials[i].suggestions[j].isNewFolder =>
            pathExists(Hierarchy, xTrials[i].suggestions[j].path)
  /\ \A i \in 1..Len(xAggregated) :
       ~xAggregated[i].isNewFolder => pathExists(Hierarchy, xAggregated[i].path)

\* C18: a failed attempt takes classifyFile back to the loop head, never out
\* of the function; a finished call with the key set has exactly one of the
\* three outcomes: a result, 'All classification trials failed', or 'No
\* valid suggestions received from any trial'.
C18_ErrorSurfacing ==
  /\ [][failures' # failures => (pc = "awaiting" /\ pc' = "loop")]_vars
  /\ [](pc \in {"start", "NoApiKey", "loop", "awaiting",
                "done", "NoUsableSamples", "EmptyAggregate"})
  /\ [](pc = "done" => (result # NoResult /\ Len(result.rawTrials) >= 1))
  /\ [](pc = "NoUsableSamples" => (result = NoResult /\ Len(trials) = 0))
  /\ [](pc = "EmptyAggregate" => (result = NoResult /\ Len(trials) >= 1))

\* A result although two attempts failed on the way.
C18_Witness ==
  /\ pc = "done" /\ failures = 2 /\ result # NoResult

-----------------------------------------------------------------------------
(* The command lines: auto mode and dry run *)

\* C19: in --auto mode without --dry, in the batch and in the single-file
\* command line, a step changes the disk (moves the file, or creates a folder
\* on the way) while the user has answered no prompt only if the verdict has
\* needsReview = false and isDominant = true; with needsReview = true no step
\* changes the disk before the user has answered a prompt.
C19_AutoActGate ==
  /\ [][(cAuto /\ ~cDry /\ disk' # disk /\ ~cPrompted')
          => (~cResult.needsReview /\ cResult.isDominant)]_vars
  /\ [][(cResult.needsReview /\ ~cPrompted') => disk' = disk]_vars

\* An auto run has moved a file without a prompt.
C19_Witness ==
  /\ cAuto /\ ~cDry /\ ~cPrompted
  /\ cPc = "end" /\ cAction = "moved"
  /\ ~disk.sourceExists
  /\ ~cResult.needsReview

\* C20: with --dry, with or without --auto, whatever the classification
\* result, no step moves or renames the file, creates a folder or writes
\* hierarchy.json; and when the batch is done with a classified file it has
\* returned 'skipped' and counted the file as skipped.
C20_DryRunChangesNothing ==
  /\ [][cDry => disk' = disk]_vars
  /\ [](cDry /\ cTool = "batch" /\ cPc = "end" /\ ~cThrew
          => (cAction = "skipped" /\ cTally = [moved |-> 0, skipped |-> 1, errors |-> 0]))

\* A dry run with --auto on a dominant verdict for a new folder that is not
\* on disk is over: the batch counted the file as skipped.
C20_Witness ==
  /\ cDry /\ cAuto /\ cTool = "batch" /\ cPc = "end"
  /\ ~cResult.needsReview /\ cIsNew
  /\ cTarget \notin disk.folders
  /\ cAction = "skipped" /\ cTally.skipped = 1

-----------------------------------------------------------------------------
(* The result *)

\* The four rules as classifyFile applies them to the ranked list: rule 1
\* fails when the top choice is below 50, rule 2 when there is an alternative
\* and the top choice is below twice the best one, rule 3 when the top choice
\* is a new folder with a count below 3 or a confidence below 50, rule 4 when
\* some ranked candidate is a new folder with count 1.
RuleFails(k) ==
  CASE k = 1 -> Below(Top.normalizedConfidence, 50)
    [] k = 2 -> /\ Len(normalized) > 1
                /\ BelowTimes(Top.normalizedConfidence, 2, normalized[2].normalizedConfidence)
    [] k = 3 -> /\ Top.isNewFolder
                /\ (Top.count < 3 \/ Below(Top.normalizedConfidence, 50))
    [] k = 4 -> \E i \in 1..Len(normalized) :
                  normalized[i].isNewFolder /\ normalized[i].count = 1

ReasonOf(k) ==
  CASE k = 1 -> "low absolute confidence"
    [] k = 2 -> "close alternatives"
    [] k = 3 -> "new folder suggestion needs verification"
    [] k = 4 -> "new folder suggested in only one trial"

RECURSIVE ReasonsFrom(_)
ReasonsFrom(k) ==
  IF k > 4 THEN <<>>
  ELSE (IF RuleFails(k) THEN <<ReasonOf(k)>> ELSE <<>>) \o ReasonsFrom(k + 1)

CandidatesOf(sugs) == { KeyOf(sugs[i]) : i \in 1..Len(sugs) }

\* C22: topChoice followed by the alternatives lists every distinct candidate
\* of the collected samples exactly once and nothing else, in descending
\* order of normalizedConfidence; rawTrials is the sequence of usable
\* samples, between 1 and 3 of them.
C22_ResultShape ==
  xPc = "decided" =>
    LET ranked == <<xResult.topChoice>> \o xResult.alternatives
    IN /\ { KeyOf(ranked[i]) : i \in 1..Len(ranked) } = CandidatesOf(AllSuggestions(xTrials))
       /\ \A i, j \in 1..Len(ranked) : KeyOf(ranked[i]) = KeyOf(ranked[j]) => i = j
       /\ \A i \in 1..(Len(ranked) - 1) :
            ~BelowTimes(ranked[i].normalizedConfidence, 1, ranked[i + 1].normalizedConfidence)
       /\ xResult.rawTrials = xTrials
       /\ 1 <= Len(xResult.rawTrials) /\ Len(xResult.rawTrials) <= 3

-----------------------------------------------------------------------------
(* Termination, sequencing *)

\* C23: when every oracle invocation eventually returns or throws and
\* classifyFile keeps taking its own steps (FairSpec), every execution
\* eventually reaches a terminal outcome: a result or one of the three
\* errors.
C23_Termination == <>(pc \in Terminal)

\* A result after six attempts of which three failed.
C23_Witness ==
  /\ pc = "done"
  /\ attempts = maxAttempts /\ failures = 3 /\ Len(trials) = TargetTrials

-----------------------------------------------------------------------------
(* The pruning tool *)

\* C24: when the pruning tool has exited on [q]uit after decisions were
\* taken, the output hierarchy file has been written.
C24_QuitSavesProgress ==
  (pPc = "quit" /\ pDecisions > 0) => pWritten

-----------------------------------------------------------------------------
(* Aggregation: conservation of confidence *)

\* C25: once classifyFile has aggregated the collected samples, every
\* aggregated candidate's totalConfidence is the sum of the confidences of
\* the suggestions that carry its key, every suggestion's key has exactly one
\* candidate, and the totalConfidence of all candidates sums to the
\* confidence of all suggestions of all samples.
C25_MassConservation ==
  pc \in {"done", "EmptyAggregate"} =>
    LET aggregated == aggregateSuggestions(trials)
        sugs == AllSuggestions(trials)
    IN /\ \A i \in 1..Len(aggregated) :
            aggregated[i].totalConfidence = MassOf(aggregated[i].key, sugs)
       /\ \A i, j \in 1..Len(aggregated) : aggregated[i].key = aggregated[j].key => i = j
       /\ \A k \in 1..Len(sugs) :
            \E i \in 1..Len(aggregated) : aggregated[i].key = PathKeyOf(sugs[k])
       /\ SumTotalConfidence(aggregated) = GrandTotal(sugs)

\* Work is proposed by all three samples at 60, twice by one of them, next
\* to Home: its candidate holds 240 of 270.
C25_Witness ==
  /\ pc = "done"
  /\ Len(trials) = 3
  /\ \E i \in 1..Len(aggregateSuggestions(trials)) :
       LET a == aggregateSuggestions(trials)[i]
       IN a.path = <<"Work">> /\ ~a.isNewFolder /\ a.count = 4 /\ a.totalConfidence = 240
  /\ GrandTotal(AllSuggestions(trials)) = 270

-----------------------------------------------------------------------------
(* The schema of retained samples *)

\* The schema on a suggestion as it stands in the response.
RawObeysSchema(item) ==
  /\ item.confidenceIsNumber /\ 0 <= item.confidence /\ item.confidence <= 100
  /\ item.isNewFolderIsBoolean
  /\ item.isNewFolder => item.newFolderName # NoName

\* C26: every retained suggestion has a confidence in [0, 100], a boolean
\* isNewFolder and, when isNewFolder is true, a non-empty newFolderName; and a
\* response with a suggestion that violates this is not retained, so no more
\* samples are retained than there are responses whose suggestions all obey.
C26_RetainedSchema ==
  xPc # "input" =>
    /\ \A i \in 1..Len(xTrials) :
         \A j \in 1..Len(xTrials[i].suggestions) :
           LET sug == xTrials[i].suggestions[j]
           IN /\ 0 <= sug.confidence /\ sug.confidence <= 100
              /\ sug.isNewFolder \in BOOLEAN
              /\ sug.isNewFolder => sug.newFolderName # NoName
    /\ Len(xTrials)
         <= Cardinality({ k \in 1..Len(xResponses) :
                            \A j \in 1..Len(xResponses[k].items) :
                              RawObeysSchema(xResponses[k].items[j]) })

-----------------------------------------------------------------------------
(* Sequential sampling *)

\* C27: at most one call of makeTrial is in flight; a call is begun only
\* when none is in flight, that is after the previous one returned a sample
\* or threw; and the step that aggregates and leaves the loop is taken only
\* when none is in flight.
C27_SequentialSampling ==
  /\ [](inFlight \in {0, 1})
  /\ [][attempts' # attempts => (inFlight = 0 /\ Len(trials) + failures = attempts)]_vars
  /\ [][pc' \in {"done", "NoUsableSamples", "EmptyAggregate"}
          => (inFlight = 0 /\ Len(trials) + failures = attempts)]_vars

\* The second invocation is in flight after the first produced a sample.
C27_Witness ==
  /\ pc = "awaiting" /\ inFlight = 1
  /\ attempts = 2 /\ Len(trials) = 1 /\ failures = 0

-----------------------------------------------------------------------------
(* Usage accounting *)

\* C28: usage is reported exactly once for every oracle invocation that
\* returned a response, and before the response is parsed: when the parsing
\* starts, and whenever no invocation is under way, the number of usage
\* reports equals the number of responses; after a classification it lies
\* between the number of retained samples and the number of attempts.
C28_UsageAccounting ==
  /\ pc \in {"tracked", "loop"} \cup Terminal => usage = responded
  /\ pc \in Terminal => (Len(trials) <= usage /\ usage <= attempts)

-----------------------------------------------------------------------------
(* moveFile and the creation of folders *)

FolderNames == {"Work", "Home", "Tax", "Projects", "NEW:Tax", "Unsorted"}

\* Largest depth of the hierarchy paths the properties range over.
FolderDepth == 2

\* The hierarchy paths over these names.
FolderPaths == UNION { [1..n -> FolderNames] : n \in 1..FolderDepth }

\* C29: when the source file does not exist, or the destination folder does
\* not exist and createIfMissing is false, or the destination folder already
\* holds a file of the same name, moveFile returns success = false and the
\* source, the destination file, the folders and hierarchy.json are as before.
C29_FailsCleanly ==
  \A hierarchyPath \in FolderPaths, createIfMissing \in BOOLEAN, io \in RenameOutcomes :
    ( \/ ~disk.sourceExists
      \/ (hierarchyPath \notin disk.folders /\ ~createIfMissing)
      \/ hierarchyPath \in disk.destFiles )
    => moveFile(disk, hierarchyPath, createIfMissing, io) = [disk |-> disk, success |-> FALSE]

\* The batch answered 'y' on a target whose folder already holds a file of
\* the source's name: the move failed and the source is still there.
C29_Witness ==
  /\ cPc = "end" /\ cTool = "batch" /\ cPrompted
  /\ cAction = "error" /\ ~cThrew
  /\ disk.sourceExists
  /\ cTarget \in disk.destFiles
  /\ cAlternatives = <<>>

\* The destinations the user or the auto mode can choose from, each with the
\* isNewFolder flag the command line passes as createIfMissing.
ChoosableDestinations ==
  LET alternatives == IF cTool = "batch" THEN cAlternatives ELSE cResult.alternatives
  IN {[dest |-> cTarget, isNew |-> cIsNew]}
       \cup { [dest |-> DestinationPath(alternatives[i]), isNew |-> alternatives[i].isNewFolder] :
                i \in DOMAIN alternatives }

\* A step creates a folder or rewrites hierarchy.json.
Creates ==
  \/ disk'.folders # disk.folders
  \/ disk'.hierarchyJson # disk.hierarchyJson

\* C30: a step creates folders or changes hierarchy.json only for a chosen
\* destination that is a new-folder suggestion and is missing on disk, and
\* then hierarchy.json contains the whole destination path and every path it
\* contained before; a step that creates without a prompt is an auto-mode move
\* to a dominant new-folder top choice; and moving to an existing-folder
\* choice whose folder is missing fails and changes nothing.
C30_CreationReserved ==
  /\ [][Creates =>
          \E c \in ChoosableDestinations :
            /\ c.isNew
            /\ c.dest \notin disk.folders
            /\ disk'.folders = disk.folders \cup Prefixes(c.dest)
            /\ pathExists(disk'.hierarchyJson, c.dest)
            /\ \A path \in FolderPaths :
                 pathExists(disk.hierarchyJson, path) => pathExists(disk'.hierarchyJson, path)]_vars
  /\ [][(Creates /\ cPc = "classified") =>
          (cAuto /\ cResult.isDominant /\ cResult.topChoice.isNewFolder)]_vars
  /\ [](\A c \in ChoosableDestinations \cup {[dest |-> <<"Unsorted">>, isNew |-> FALSE]},
           io \in RenameOutcomes :
          (~c.isNew /\ c.dest \notin disk.folders)
            => moveFile(disk, c.dest, c.isNew, io) = [disk |-> disk, success |-> FALSE])

\* The auto mode moved the file into the new folder Work/Tax, which it
\* created and added to hierarchy.json.
C30_Witness ==
  /\ cPc = "end" /\ cAuto /\ ~cPrompted /\ cAction = "moved"
  /\ cResult.topChoice.isNewFolder
  /\ cTarget = <<"Work", "Tax">>
  /\ cTarget \in disk.destFiles
  /\ pathExists(disk.hierarchyJson, <<"Work", "Tax">>)
  /\ pathExists(disk.hierarchyJson, <<"Work", "Projects">>)

====
